---- MODULE Spec2Model ----
(***************************************************************************)
(* Model of mmark's bibliography resolution (package mparser):             *)
(*   CitationToBibliography, NodeBackMatter, anchorFromReference,          *)
(*   ReferenceHook, IsReference, AddBibliography, authContFromTitle.       *)
(*                                                                         *)
(* A byte string is a sequence of one-character strings, so that prefix    *)
(* tests, index searches, slicing, lower-casing and byte-wise ordering are *)
(* computed the way the Go code computes them.                             *)
(*                                                                         *)
(* Two specifications:                                                     *)
(*   Spec     a document tree is grown node by node, then                  *)
(*            CitationToBibliography is run on it, alone or as the first   *)
(*            statement of AddBibliography, which then goes on;            *)
(*   SpecRef  IsReference / anchorFromReference / ReferenceHook are run on *)
(*            a byte buffer drawn from a bounded set of inputs.            *)
(***************************************************************************)
EXTENDS Integers, Sequences, FiniteSets, TLC

VARIABLES
    doc,          \* the document tree (ast.Node), a nested record
    pc,           \* Spec: "build", then "cited" (CitationToBibliography has
                  \* returned), then "added" (AddBibliography has returned)
    normative,    \* first result of CitationToBibliography (Nil or a group)
    informative,  \* second result of CitationToBibliography (Nil or a group)
    ret,          \* result of AddBibliography
    data,         \* SpecRef: the input buffer
    dcap,         \* SpecRef: cap(data), the capacity of the buffer's backing array
    rpc,          \* SpecRef: "ready" | "IsReference" | "anchorFromReference" | "ReferenceHook"
    rout          \* SpecRef: the outcome of the call

vars == <<doc, pc, normative, informative, ret, data, dcap, rpc, rout>>
docVars == <<doc, pc, normative, informative, ret>>
refVars == <<data, dcap, rpc, rout>>

-----------------------------------------------------------------------------
(* Bytes.                                                                  *)

\* The printable ASCII characters in code order; Ascii[i] has code i + 31
\* ("bsl" and "bqt" stand for the backslash and the backquote).
Ascii ==
    << " ", "!", "\"", "#", "$", "%", "&", "'", "(", ")", "*", "+", ",", "-", ".", "/",
       "0", "1", "2", "3", "4", "5", "6", "7", "8", "9", ":", ";", "<", "=", ">", "?",
       "@", "A", "B", "C", "D", "E", "F", "G", "H", "I", "J", "K", "L", "M", "N", "O",
       "P", "Q", "R", "S", "T", "U", "V", "W", "X", "Y", "Z", "[", "bsl", "]", "^", "_",
       "bqt", "a", "b", "c", "d", "e", "f", "g", "h", "i", "j", "k", "l", "m", "n", "o",
       "p", "q", "r", "s", "t", "u", "v", "w", "x", "y", "z", "{", "|", "}", "~" >>

CodeTable == [c \in {Ascii[i] : i \in 1..Len(Ascii)} |->
                 31 + (CHOOSE i \in 1..Len(Ascii) : Ascii[i] = c)]

Code(c) == CodeTable[c]

\* bytes.ToLower on one ASCII byte: 'A'..'Z' are moved to 'a'..'z'.
ToLowerByte(c) ==
    IF Code(c) >= Code("A") /\ Code(c) <= Code("Z")
    THEN Ascii[Code(c) + (Code("a") - Code("A")) - 31]
    ELSE c

\* bytes.ToLower
ToLower(s) == [i \in 1..Len(s) |-> ToLowerByte(s[i])]

\* strings.EqualFold on ASCII strings: equal under simple case folding.
EqualFold(s, t) ==
    /\ Len(s) = Len(t)
    /\ \A i \in 1..Len(s) : ToLowerByte(s[i]) = ToLowerByte(t[i])

\* Go's s < t on strings: byte-wise lexicographic order.
StringLess(s, t) ==
    \E k \in 0..Len(s) :
        /\ k <= Len(t)
        /\ \A i \in 1..k : s[i] = t[i]
        /\ \/ (k = Len(s) /\ k < Len(t))
           \/ (k < Len(s) /\ k < Len(t) /\ Code(s[k + 1]) < Code(t[k + 1]))

\* bytes.HasPrefix
HasPrefix(s, p) == Len(s) >= Len(p) /\ \A i \in 1..Len(p) : s[i] = p[i]

\* sep occurs in s at 0-based offset k.
OccursAt(s, sep, k) ==
    /\ k + Len(sep) <= Len(s)
    /\ \A i \in 1..Len(sep) : s[k + i] = sep[i]

\* bytes.Index: 0-based offset of the first occurrence of sep in s, or -1.
RECURSIVE IndexFrom(_, _, _)
IndexFrom(s, sep, k) ==
    IF k + Len(sep) > Len(s) THEN -1
    ELSE IF OccursAt(s, sep, k) THEN k
    ELSE IndexFrom(s, sep, k + 1)

Index(s, sep) == IndexFrom(s, sep, 0)

\* []byte("...") : the bytes of a string literal.
Bytes(str) == [i \in 1..Len(str) |-> SubSeq(str, i, i)]

\* Go's s[lo:hi] on a slice whose length is at least hi (0-based, half open).
Slice(s, lo, hi) == SubSeq(s, lo + 1, hi)

-----------------------------------------------------------------------------
(* The reference-block lexer and the anchor extractor.                     *)

OpenReference       == Bytes("<reference ")
OpenReferenceGroup  == Bytes("<referencegroup ")
CloseReference      == Bytes("</reference>")
CloseReferenceGroup == Bytes("</referencegroup>")
AnchorAttr          == Bytes("anchor=")

\* A byte of the backing array past len(data): its value is whatever the
\* buffer holds there.
BeyondLen == "#"

NoOutcome == [panic |-> FALSE, ok |-> FALSE, span |-> <<>>, over |-> 0]
Panic     == [panic |-> TRUE,  ok |-> FALSE, span |-> <<>>, over |-> 0]
NotFound  == [panic |-> FALSE, ok |-> FALSE, span |-> <<>>, over |-> 0]
Found(s, n) == [panic |-> FALSE, ok |-> TRUE, span |-> s, over |-> n]

\* typ, as IsReference selects it ("" is the empty sequence).
ClosingMarker(d) ==
    IF HasPrefix(d, OpenReferenceGroup) THEN CloseReferenceGroup
    ELSE IF HasPrefix(d, OpenReference) THEN CloseReference
    ELSE <<>>

\* IsReference(data) on a buffer of capacity c.  The two slice expressions
\* follow Go: data[len(typ):] panics when len(typ) > len(data), and
\* data[:high] panics when high > cap(data); with len(data) < high <= cap(data)
\* it yields the bytes of the backing array up to high.
IsReference(d, c) ==
    LET typ == ClosingMarker(d) IN
    IF typ = <<>> THEN NotFound
    ELSE IF Len(typ) > Len(d) THEN Panic
    ELSE
        LET end  == Index(Slice(d, Len(typ), Len(d)), typ)
            high == end + 2 * Len(typ)
        IN  IF end > Len(d) \/ end = 0 THEN NotFound
            ELSE IF high > c THEN Panic
            ELSE IF high <= Len(d) THEN Found(Slice(d, 0, high), 0)
            ELSE Found(d \o [i \in 1..(high - Len(d)) |-> BeyondLen], high - Len(d))

\* The scan "for i < len(data) && data[i] != quote { i++ }", 0-based.
RECURSIVE ScanQuote(_, _, _)
ScanQuote(d, i, quote) ==
    IF i < Len(d) /\ d[i + 1] # quote THEN ScanQuote(d, i + 1, quote) ELSE i

\* anchorFromReference(data)
anchorFromReference(d) ==
    IF ~HasPrefix(d, OpenReference) /\ ~HasPrefix(d, OpenReferenceGroup) THEN NotFound
    ELSE
        LET anchor == Index(d, AnchorAttr) IN
        IF anchor < 0 THEN NotFound
        ELSE
            LET beg == anchor + Len(AnchorAttr) IN
            IF beg >= Len(d) THEN NotFound
            ELSE
                LET quote == d[beg + 1]
                    i     == ScanQuote(d, beg + 1, quote)
                IN  IF i >= Len(d) THEN NotFound
                    ELSE Found(Slice(d, beg + 1, i), 0)

\* xml.Unmarshal(rw, &x) into a reference.Reference succeeds.  The decoder is
\* the standard library's; what is kept of it is that the input has to be one
\* well-formed <reference ...> element: a start tag whose attribute quotes
\* pair up, character data without markup, and the matching end tag.
Unmarshals(rw) ==
    /\ HasPrefix(rw, OpenReference)
    /\ LET gt == Index(rw, <<">">>) IN
       /\ gt >= Len(OpenReference)
       /\ LET attrs == Slice(rw, Len(OpenReference), gt)
              rest  == Slice(rw, gt + 1, Len(rw))
              close == Index(rest, CloseReference)
          IN  /\ Cardinality({i \in 1..Len(attrs) : attrs[i] \in {"'", "\""}}) % 2 = 0
              /\ \A i \in 1..Len(attrs) : attrs[i] # "<"
              /\ close >= 0
              /\ \A i \in 1..close : rest[i] # "<"

\* fmtReference(data): the bytes unchanged when they do not decode, else the
\* re-serialisation (xml.MarshalIndent) of the decoded record, kept symbolic.
fmtReference(d) ==
    IF Unmarshals(d) THEN [form |-> "marshalled", of |-> d]
    ELSE [form |-> "raw", of |-> d]

\* ReferenceHook(data): (node, nil, len(ref)), or (nil, nil, 0).
ReferenceHook(d, c) ==
    LET r == IsReference(d, c) IN
    IF r.panic THEN [panic |-> TRUE, ok |-> FALSE, span |-> <<>>, over |-> 0,
                     Literal |-> [form |-> "none", of |-> <<>>], n |-> 0]
    ELSE IF ~r.ok THEN [panic |-> FALSE, ok |-> FALSE, span |-> <<>>, over |-> 0,
                        Literal |-> [form |-> "none", of |-> <<>>], n |-> 0]
    ELSE [panic |-> FALSE, ok |-> TRUE, span |-> r.span, over |-> r.over,
          Literal |-> fmtReference(r.span), n |-> Len(r.span)]

-----------------------------------------------------------------------------
(* The document tree.  A node is a record with a kind, its children and    *)
(* the fields of its Go type; a path is the sequence of child indices      *)
(* leading from the root to a node.                                        *)

Nil == [kind |-> "nil"]

Document(ch)        == [kind |-> "Document", children |-> ch]
Paragraph(ch)       == [kind |-> "Paragraph", children |-> ch]
DocumentMatter(m)   == [kind |-> "DocumentMatter", Matter |-> m, children |-> <<>>]
Title(auth, cont)   == [kind |-> "Title", Author |-> auth, Contact |-> cont, children |-> <<>>]
Citation(dest, typ) == [kind |-> "Citation", Destination |-> dest, Type |-> typ, children |-> <<>>]
ReferenceBlock(lit) == [kind |-> "ReferenceBlock", Literal |-> lit, children |-> <<>>]
BibliographyWrapper == [kind |-> "BibliographyWrapper", children |-> <<>>]
Bibliography(t)     == [kind |-> "Bibliography", Type |-> t, children |-> <<>>]

\* &mast.BibliographyItem{} with Anchor and Type set; Reference and
\* ReferenceGroup are nil.
BibliographyItem(anchor, t) ==
    [kind |-> "BibliographyItem", Anchor |-> anchor, Type |-> t,
     Reference      |-> [set |-> FALSE, from  |-> <<>>],
     ReferenceGroup |-> [set |-> FALSE, bytes |-> <<>>],
     children |-> <<>>]

\* Node types that embed ast.Container; the others embed ast.Leaf.
IsContainer(n) ==
    n.kind \in {"Document", "Paragraph", "DocumentMatter", "BibliographyWrapper", "Bibliography"}

RECURSIVE NodeAt(_, _)
NodeAt(n, path) ==
    IF path = <<>> THEN n ELSE NodeAt(n.children[Head(path)], Tail(path))

\* ast.AppendChild(parent, child), the parent named by its path from n.
RECURSIVE AppendChild(_, _, _)
AppendChild(n, path, child) ==
    IF path = <<>>
    THEN [n EXCEPT !.children = Append(@, child)]
    ELSE [n EXCEPT !.children[Head(path)] = AppendChild(@, Tail(path), child)]

\* ast.WalkFunc: the paths of the nodes in the order the visitor is called
\* while no callback terminates the walk: a node on entering, its children
\* in order, and a container once more on leaving.
RECURSIVE Walk(_, _)
RECURSIVE WalkChildren(_, _, _)
Walk(n, path) ==
    <<path>> \o WalkChildren(n, path, 1) \o (IF IsContainer(n) THEN <<path>> ELSE <<>>)
WalkChildren(n, path, i) ==
    IF i > Len(n.children) THEN <<>>
    ELSE Walk(n.children[i], Append(path, i)) \o WalkChildren(n, path, i + 1)

\* The visit at which a callback that terminates the walk on the visits
\* `hits` stops it: the first of them, as an index into the walk, or 0.
FirstVisit(hits) ==
    IF hits = {} THEN 0 ELSE CHOOSE i \in hits : \A j \in hits : i <= j

-----------------------------------------------------------------------------
(* CitationToBibliography                                                  *)

\* authContFromTitle without the loop over the contacts.
authContFromTitleAuthorsOnly(t) == t.Author

\* authContFromTitle(t)
authContFromTitle(t) == t.Author \o t.Contact

\* First walk: names of the first *mast.Title met; the walk then terminates.
TitleNames(d) ==
    LET visits == Walk(d, <<>>)
        at == FirstVisit({i \in 1..Len(visits) : NodeAt(d, visits[i]).kind = "Title"})
    IN  IF at = 0 THEN <<>> ELSE authContFromTitle(NodeAt(d, visits[at]))

\* seen[k] = v
MapSet(m, k, v) == [x \in (DOMAIN m) \cup {k} |-> IF x = k THEN v ELSE m[x]]

EmptyMap == [x \in {} |-> Nil]

\* The test that guards a destination against the seen map (line 44).
AlreadySeen(seen, d) == ToLower(d) \in DOMAIN seen

\* The loop over c.Destination, from index i on (1-based).
RECURSIVE CollectDestinations(_, _, _, _)
CollectDestinations(c, i, names, seen) ==
    IF i > Len(c.Destination) THEN seen
    ELSE
        LET d == c.Destination[i] IN
        IF \E n \in 1..Len(names) : EqualFold(names[n], d)
        THEN CollectDestinations(c, i + 1, names, seen)
        ELSE IF AlreadySeen(seen, d)
        THEN CollectDestinations(c, i + 1, names, seen)
        ELSE CollectDestinations(c, i + 1, names,
                                 MapSet(seen, d, BibliographyItem(d, c.Type[i])))

\* The callback of the second walk on one node.
VisitNode(n, names, st) ==
    IF n.kind = "Citation"
    THEN [st EXCEPT !.seen = CollectDestinations(n, 1, names, st.seen)]
    ELSE IF n.kind = "ReferenceBlock"
    THEN LET anchor == anchorFromReference(n.Literal) IN
         IF anchor.ok
         THEN [st EXCEPT !.raw = MapSet(st.raw, ToLower(anchor.span), n.Literal)]
         ELSE st
    ELSE st

\* Second walk, from visit i on.
RECURSIVE Collect(_, _, _, _, _)
Collect(d, visits, i, names, st) ==
    IF i > Len(visits) THEN st
    ELSE Collect(d, visits, i + 1, names, VisitNode(NodeAt(d, visits[i]), names, st))

\* sort.Strings(keys): insertion into ascending byte-wise order.
RECURSIVE InsertKey(_, _)
InsertKey(sorted, k) ==
    IF sorted = <<>> THEN <<k>>
    ELSE IF StringLess(k, Head(sorted)) THEN <<k>> \o sorted
    ELSE <<Head(sorted)>> \o InsertKey(Tail(sorted), k)

RECURSIVE SortFrom(_, _, _)
SortFrom(keys, i, acc) ==
    IF i > Len(keys) THEN acc ELSE SortFrom(keys, i + 1, InsertKey(acc, keys[i]))

SortStrings(keys) == SortFrom(keys, 1, <<>>)

\* The join of lines 73-82 looking the anchor up as written, not lower-cased.
AttachReferenceAsWritten(r, raw) ==
    IF r.Anchor \in DOMAIN raw
    THEN IF Unmarshals(raw[r.Anchor])
         THEN [r EXCEPT !.Reference = [set |-> TRUE, from |-> raw[r.Anchor]]]
         ELSE [r EXCEPT !.ReferenceGroup = [set |-> TRUE, bytes |-> raw[r.Anchor]]]
    ELSE r

\* Lines 73-82: join the item with the raw reference of its anchor.
AttachReference(r, raw) ==
    LET a == ToLower(r.Anchor) IN
    IF a \in DOMAIN raw
    THEN IF Unmarshals(raw[a])
         THEN [r EXCEPT !.Reference = [set |-> TRUE, from |-> raw[a]]]
         ELSE [r EXCEPT !.ReferenceGroup = [set |-> TRUE, bytes |-> raw[a]]]
    ELSE r

\* The switch of lines 84-98 without the fallthrough: a suppressed citation
\* is left out of both groups.
ClassifyNoFallthrough(groups, r) ==
    IF r.Type = "Informative"
    THEN LET g == IF groups.informative = Nil THEN Bibliography("Informative")
                  ELSE groups.informative
         IN  [groups EXCEPT !.informative = AppendChild(g, <<>>, r)]
    ELSE IF r.Type = "Normative"
    THEN LET g == IF groups.normative = Nil THEN Bibliography("Normative")
                  ELSE groups.normative
         IN  [groups EXCEPT !.normative = AppendChild(g, <<>>, r)]
    ELSE groups

\* Lines 84-98: the switch on r.Type.
Classify(groups, r) ==
    IF r.Type \in {"Suppressed", "Informative"}
    THEN LET g == IF groups.informative = Nil THEN Bibliography("Informative")
                  ELSE groups.informative
         IN  [groups EXCEPT !.informative = AppendChild(g, <<>>, r)]
    ELSE IF r.Type = "Normative"
    THEN LET g == IF groups.normative = Nil THEN Bibliography("Normative")
                  ELSE groups.normative
         IN  [groups EXCEPT !.normative = AppendChild(g, <<>>, r)]
    ELSE groups

\* The loop "for _, k := range keys", from index i on.
RECURSIVE Assemble(_, _, _, _, _)
Assemble(keys, i, seen, raw, groups) ==
    IF i > Len(keys) THEN groups
    ELSE Assemble(keys, i + 1, seen, raw,
                  Classify(groups, AttachReference(seen[keys[i]], raw)))

\* The keys slice as the loop "for k := range seen" may fill it: the
\* iteration order of a Go map is not specified.
KeyOrders(seen) ==
    LET K == DOMAIN seen
        n == Cardinality(K)
    IN  {f \in [1..n -> K] : \A i, j \in 1..n : i # j => f[i] # f[j]}

\* The keys left in map iteration order (sort.Strings not called).
OrderKeysUnsorted(keys) == keys

\* The keys in the order the assembling loop uses them.
OrderKeys(keys) == SortStrings(keys)

\* Lines 18-60 of CitationToBibliography: the two walks; seen and raw.
CollectAll(d) ==
    Collect(d, Walk(d, <<>>), 1, TitleNames(d), [seen |-> EmptyMap, raw |-> EmptyMap])

\* Lines 62-69 of CitationToBibliography: what keys may hold after the sort.
SortedKeys(seen) == {OrderKeys(keys) : keys \in KeyOrders(seen)}

\* Lines 71-100 of CitationToBibliography, with keys as sorted.
AssembleAll(st, keys) ==
    Assemble(keys, 1, st.seen, st.raw, [normative |-> Nil, informative |-> Nil])

-----------------------------------------------------------------------------
(* NodeBackMatter and AddBibliography                                      *)

IsBackMatter(n) == n.kind = "DocumentMatter" /\ n.Matter = "Back"

\* NodeBackMatter(doc): the path of the node, or Nil.
NodeBackMatter(d) ==
    LET visits == Walk(d, <<>>)
        at == FirstVisit({i \in 1..Len(visits) : IsBackMatter(NodeAt(d, visits[i]))})
    IN  IF at = 0 THEN Nil ELSE [kind |-> "path", path |-> visits[at]]

\* Lines 211-222 with the wrapper created whenever a group exists.
SpliceAlwaysWrapped(d, where, norm, inform) ==
    LET any == norm # Nil \/ inform # Nil
        d1 == IF any THEN AppendChild(d, where, BibliographyWrapper) ELSE d
        w1 == IF any
              THEN Append(where, Len(NodeAt(d1, where).children))
              ELSE where
        d2 == IF norm # Nil THEN AppendChild(d1, w1, norm) ELSE d1
        d3 == IF inform # Nil THEN AppendChild(d2, w1, inform) ELSE d2
    IN  d3

\* Lines 211-222 on the back matter node found at `where`.
Splice(d, where, norm, inform) ==
    LET both == norm # Nil /\ inform # Nil
        d1 == IF both THEN AppendChild(d, where, BibliographyWrapper) ELSE d
        w1 == IF both
              THEN Append(where, Len(NodeAt(d1, where).children))
              ELSE where
        d2 == IF norm # Nil THEN AppendChild(d1, w1, norm) ELSE d1
        d3 == IF inform # Nil THEN AppendChild(d2, w1, inform) ELSE d2
    IN  d3

\* AddBibliography reporting the groups even when no back matter was found.
AddBibliographyReportsGroups(d, g) ==
    LET where == NodeBackMatter(d) IN
    IF where = Nil
    THEN [doc |-> d, ret |-> (g.normative # Nil) \/ (g.informative # Nil)]
    ELSE [doc |-> Splice(d, where.path, g.normative, g.informative),
          ret |-> (g.normative # Nil) \/ (g.informative # Nil)]

\* Lines 201-223 of AddBibliography, CitationToBibliography having returned
\* g: the tree afterwards and the value returned.
AddBibliography(d, g) ==
    LET where == NodeBackMatter(d) IN
    IF where = Nil
    THEN [doc |-> d, ret |-> FALSE]
    ELSE [doc |-> Splice(d, where.path, g.normative, g.informative),
          ret |-> (g.normative # Nil) \/ (g.informative # Nil)]

-----------------------------------------------------------------------------
(* The documents and buffers explored.                                     *)

\* Bound on the size of a document: its nodes below the root, a citation
\* counting once per destination.
MaxSize == 3

\* Spare capacity a buffer may have past its length.
MaxSlack == 8

CitationTypes == {"Suppressed", "Informative", "Normative"}

CitedAnchors == {Bytes("X"), Bytes("x"), Bytes("Ab")}

TitleNodes ==
    { Title(<<Bytes("aB")>>, <<>>),
      Title(<<>>, <<Bytes("x")>>) }

ReferenceLiterals ==
    { Bytes("<reference anchor='X'></reference>"),
      Bytes("<referencegroup anchor=\"x\"></referencegroup>"),
      Bytes("<reference target=''></reference>") }

Matters == {"Main", "Back"}

RECURSIVE Size(_)
RECURSIVE SizeOfChildren(_, _)
Size(n) ==
    (IF n.kind = "Document" THEN 0
     ELSE IF n.kind = "Citation" THEN Len(n.Destination)
     ELSE 1) + SizeOfChildren(n, 1)
SizeOfChildren(n, i) ==
    IF i > Len(n.children) THEN 0 ELSE Size(n.children[i]) + SizeOfChildren(n, i + 1)

\* The containers a parser that reads the source front to back can still
\* append to: the root and the last child of such a container, if a container.
RECURSIVE OpenPaths(_, _)
OpenPaths(n, path) ==
    {path} \cup
    (IF n.children # <<>> /\ IsContainer(n.children[Len(n.children)])
     THEN OpenPaths(n.children[Len(n.children)], Append(path, Len(n.children)))
     ELSE {})

CitationNodes(room) ==
    UNION { { Citation([i \in 1..k |-> p[i][1]], [i \in 1..k |-> p[i][2]]) :
                p \in [1..k -> CitedAnchors \X CitationTypes] } : k \in 1..room }

\* Prefixes of these are the buffers the lexer is run on.
LexerTexts ==
    { Bytes("<reference anchor='X'></reference> </reference>"),
      Bytes("<referencegroup anchor=\"x\"></referencegroup>"),
      Bytes("<reference ></reference></reference>"),
      Bytes("<reference </reference>x</reference>"),
      Bytes("<reference anchor='X' and no closing marker"),
      Bytes("<references anchor='X'></references>") }

LexerInputs == UNION { {SubSeq(t, 1, n) : n \in 0..Len(t)} : t \in LexerTexts }

-----------------------------------------------------------------------------
(* Spec: a document is built, then resolved.                               *)

Init ==
    /\ doc = Document(<<>>)
    /\ pc = "build"
    /\ normative = Nil
    /\ informative = Nil
    /\ ret = FALSE
    /\ data = <<>>
    /\ dcap = 0
    /\ rpc = "ready"
    /\ rout = NoOutcome

\* The parser appends `node` under the open container at `path`.
Grow(path, node) ==
    /\ doc' = AppendChild(doc, path, node)
    /\ UNCHANGED <<pc, normative, informative, ret, refVars>>

\* The size left for further nodes while the document is being built.
Room == IF pc = "build" THEN MaxSize - Size(doc) ELSE 0

AddTitle ==
    /\ Room >= 1
    /\ \E path \in OpenPaths(doc, <<>>), t \in TitleNodes : Grow(path, t)

AddCitation ==
    /\ Room >= 1
    /\ \E path \in OpenPaths(doc, <<>>), c \in CitationNodes(Room) : Grow(path, c)

AddReferenceBlock ==
    /\ Room >= 1
    /\ \E path \in OpenPaths(doc, <<>>), lit \in ReferenceLiterals :
           Grow(path, ReferenceBlock(lit))

AddDocumentMatter ==
    /\ Room >= 1
    /\ \E path \in OpenPaths(doc, <<>>), m \in Matters : Grow(path, DocumentMatter(m))

AddParagraph ==
    /\ Room >= 1
    /\ \E path \in OpenPaths(doc, <<>>) : Grow(path, Paragraph(<<>>))

\* CitationToBibliography(doc), called on its own or as line 200 of
\* AddBibliography.
CallCitationToBibliography ==
    /\ pc = "build"
    /\ LET st == CollectAll(doc) IN
       \E keys \in SortedKeys(st.seen) :
         LET g == AssembleAll(st, keys) IN
         /\ normative' = g.normative
         /\ informative' = g.informative
    /\ pc' = "cited"
    /\ UNCHANGED <<doc, ret, refVars>>

\* AddBibliography(doc) from line 201 on, norm and inform being what
\* CitationToBibliography(doc) has just returned.
CallAddBibliography ==
    /\ pc = "cited"
    /\ LET r == AddBibliography(doc, [normative |-> normative, informative |-> informative])
       IN  /\ doc' = r.doc
           /\ ret' = r.ret
    /\ pc' = "added"
    /\ UNCHANGED <<normative, informative, refVars>>

Next ==
    \/ AddTitle
    \/ AddCitation
    \/ AddReferenceBlock
    \/ AddDocumentMatter
    \/ AddParagraph
    \/ CallCitationToBibliography
    \/ CallAddBibliography

Spec == Init /\ [][Next]_vars

-----------------------------------------------------------------------------
(* SpecRef: the lexer functions on one buffer.                             *)

InitRef ==
    /\ doc = Document(<<>>)
    /\ pc = "idle"
    /\ normative = Nil
    /\ informative = Nil
    /\ ret = FALSE
    /\ data \in LexerInputs
    /\ dcap \in {Len(data), Len(data) + MaxSlack}
    /\ rpc = "ready"
    /\ rout = NoOutcome

CallIsReference ==
    /\ rpc = "ready"
    /\ rpc' = "IsReference"
    /\ rout' = IsReference(data, dcap)
    /\ UNCHANGED <<data, dcap, docVars>>

CallAnchorFromReference ==
    /\ rpc = "ready"
    /\ rpc' = "anchorFromReference"
    /\ rout' = anchorFromReference(data)
    /\ UNCHANGED <<data, dcap, docVars>>

CallReferenceHook ==
    /\ rpc = "ready"
    /\ rpc' = "ReferenceHook"
    /\ rout' = ReferenceHook(data, dcap)
    /\ UNCHANGED <<data, dcap, docVars>>

NextRef ==
    \/ CallIsReference
    \/ CallAnchorFromReference
    \/ CallReferenceHook

SpecRef == InitRef /\ [][NextRef]_vars

-----------------------------------------------------------------------------
(* What the properties below read off a document and off the results,     *)
(* stated on the tree itself and not through the operators above.          *)

\* The paths of the nodes in document (depth-first, pre-order) order.
RECURSIVE PreOrder(_, _)
RECURSIVE PreOrderChildren(_, _, _)
PreOrder(n, path) == <<path>> \o PreOrderChildren(n, path, 1)
PreOrderChildren(n, path, i) ==
    IF i > Len(n.children) THEN <<>>
    ELSE PreOrder(n.children[i], Append(path, i)) \o PreOrderChildren(n, path, i + 1)

\* The nodes of one kind below n, n included, in document order.
RECURSIVE NodesOfKind(_, _)
RECURSIVE NodesOfKindIn(_, _, _)
NodesOfKind(n, kind) ==
    (IF n.kind = kind THEN <<n>> ELSE <<>>) \o NodesOfKindIn(n, kind, 1)
NodesOfKindIn(n, kind, i) ==
    IF i > Len(n.children) THEN <<>>
    ELSE NodesOfKind(n.children[i], kind) \o NodesOfKindIn(n, kind, i + 1)

\* The destination/kind pairs of the citations, in document order.
RECURSIVE PairsFrom(_, _)
PairsFrom(cs, i) ==
    IF i > Len(cs) THEN <<>>
    ELSE [j \in 1..Len(cs[i].Destination) |->
             [dest |-> cs[i].Destination[j], kind |-> cs[i].Type[j], node |-> i]]
         \o PairsFrom(cs, i + 1)

CitedPairs(d) == PairsFrom(NodesOfKind(d, "Citation"), 1)

\* The full names of the authors and contacts of the first title node.
FirstTitleNames(d) ==
    LET ts == NodesOfKind(d, "Title")
    IN  IF ts = <<>> THEN <<>> ELSE ts[1].Author \o ts[1].Contact

\* x equals one of the names, case-insensitively.
IsName(names, x) == \E i \in 1..Len(names) : EqualFold(names[i], x)

\* The paths of the back matter nodes, in document order.
BackMatterPaths(d) ==
    LET IsBack(path) == NodeAt(d, path).kind = "DocumentMatter"
                        /\ NodeAt(d, path).Matter = "Back"
    IN  SelectSeq(PreOrder(d, <<>>), IsBack)

Items(g) == IF g = Nil THEN <<>> ELSE g.children

AllItems == Items(normative) \o Items(informative)

\* CitationToBibliography has returned, and the tree is the one it was given.
Cited == pc = "cited"

-----------------------------------------------------------------------------
(* Properties.                                                             *)

\* C1: after CitationToBibliography the two groups together hold at most one
\* item per case-insensitive anchor, whatever the order in which two
\* destinations that differ only in letter case are met.
C1_OneItemPerAnchor ==
    Cited =>
        \A i, j \in 1..Len(AllItems) :
            i # j => ~EqualFold(AllItems[i].Anchor, AllItems[j].Anchor)

\* C2: the item of an anchor carries the kind of the first pair in document
\* order whose destination is that anchor (compared case-insensitively), and
\* sits in the group of that kind; later pairs never change it.
C2_FirstKindWins ==
    Cited =>
        LET pairs == CitedPairs(doc) IN
        \A g \in {normative, informative} : \A k \in 1..Len(Items(g)) :
            LET item  == Items(g)[k]
                same  == {i \in 1..Len(pairs) : EqualFold(pairs[i].dest, item.Anchor)}
                first == CHOOSE i \in same : \A j \in same : i <= j
            IN  /\ item.Type = pairs[first].kind
                /\ g.Type = (IF pairs[first].kind = "Normative"
                             THEN "Normative" ELSE "Informative")

\* The opener data begins with, and the closing marker that goes with it.
OpenerOf(d) ==
    IF HasPrefix(d, OpenReferenceGroup) THEN OpenReferenceGroup
    ELSE IF HasPrefix(d, OpenReference) THEN OpenReference
    ELSE <<>>

CloserOf(d) ==
    IF HasPrefix(d, OpenReferenceGroup) THEN CloseReferenceGroup
    ELSE CloseReference

\* Offset, in the bytes that follow the opener, of the first closing marker.
CloserAfterOpener(d) == Index(Slice(d, Len(OpenerOf(d)), Len(d)), CloserOf(d))

\* The closing marker sits at offset 0 of the bytes IsReference scans.
CloserAtScanStart(d) ==
    /\ Len(d) >= 2 * Len(CloserOf(d))
    /\ Slice(d, Len(CloserOf(d)), 2 * Len(CloserOf(d))) = CloserOf(d)

\* C3: when IsReference returns on data that begins with an opener (and has
\* read nothing past the buffer), it returns matched=false if no closing
\* marker follows the opener or the marker is found at relative offset 0; it
\* returns matched=true only when a closing marker was found, the span then
\* running from the start of data through the end of the first closing marker.
C3_MatchedOnlyWithCloser ==
    (rpc = "IsReference" /\ ~rout.panic /\ rout.over = 0 /\ OpenerOf(data) # <<>>) =>
        /\ (CloserAfterOpener(data) = -1 \/ CloserAtScanStart(data)) => ~rout.ok
        /\ rout.ok =>
              /\ CloserAfterOpener(data) >= 0
              /\ rout.span = Slice(data, 0, Len(OpenerOf(data)) + CloserAfterOpener(data)
                                             + Len(CloserOf(data)))

\* C4: on every input IsReference and anchorFromReference stay within the
\* bytes of the buffer: no slice expression panics, and nothing past
\* len(data) is read.
C4_NeverOutOfBounds ==
    rpc \in {"IsReference", "anchorFromReference"} => (~rout.panic /\ rout.over = 0)

\* C5: no item of either group has an anchor that equals, case-insensitively,
\* the full name of an author or contact of the first title node in document
\* order, wherever that title sits; every other destination, also of a
\* citation node that has such a destination, has an item.
C5_NamesNeverListed ==
    Cited =>
        LET names == FirstTitleNames(doc)
            pairs == CitedPairs(doc)
            items == AllItems
        IN  /\ \A k \in 1..Len(items) : ~IsName(names, items[k].Anchor)
            /\ \A i \in 1..Len(pairs) :
                  ~IsName(names, pairs[i].dest) =>
                      \E k \in 1..Len(items) : EqualFold(items[k].Anchor, pairs[i].dest)

\* A citation node that precedes the title has one destination naming a
\* contact of the title and one that names nobody; only the latter is listed.
C5_Witness ==
    /\ Cited
    /\ NodesOfKind(doc, "Title") # <<>>
    /\ PreOrder(doc, <<>>)[2] = <<1>> /\ NodeAt(doc, <<1>>).kind = "Citation"
    /\ NodesOfKind(doc, "Title")[1].Contact # <<>>
    /\ \E i, j \in 1..Len(CitedPairs(doc)) :
          /\ CitedPairs(doc)[i].node = CitedPairs(doc)[j].node
          /\ IsName(FirstTitleNames(doc), CitedPairs(doc)[i].dest)
          /\ ~IsName(FirstTitleNames(doc), CitedPairs(doc)[j].dest)
    /\ Len(AllItems) = 1

\* C6: a step of AddBibliography on a tree with a back matter node (the first
\* in document order) appends to that node's children, leaving the existing
\* ones in place: one wrapper holding [normative, informative] when both
\* groups exist, the group itself when exactly one exists.
C6_WrapOnlyBoth ==
    [][ (pc = "cited" /\ pc' = "added" /\ BackMatterPaths(doc) # <<>>) =>
          LET where == BackMatterPaths(doc)[1]
              old   == NodeAt(doc, where).children
              new   == NodeAt(doc', where).children
          IN  /\ (normative' # Nil /\ informative' # Nil) =>
                    new = Append(old, [BibliographyWrapper EXCEPT
                                          !.children = <<normative', informative'>>])
              /\ (normative' # Nil /\ informative' = Nil) => new = Append(old, normative')
              /\ (normative' = Nil /\ informative' # Nil) => new = Append(old, informative')
      ]_vars

\* The back matter node had a child; it now has that child, then the wrapper
\* with the two groups.
C6_Witness ==
    /\ pc = "added"
    /\ BackMatterPaths(doc) # <<>>
    /\ LET ch == NodeAt(doc, BackMatterPaths(doc)[1]).children IN
       /\ Len(ch) = 2
       /\ ch[1].kind = "Citation"
       /\ ch[2].kind = "BibliographyWrapper"
       /\ Len(ch[2].children) = 2
       /\ ch[2].children[1].Type = "Normative"
       /\ ch[2].children[2].Type = "Informative"

\* C7: AddBibliography returns true exactly when a back matter node exists
\* and a group is non-empty, which is exactly when it changed the tree;
\* without a back matter node it returns false and leaves the tree as it was.
C7_TrueIffAttached ==
    [][ (pc = "cited" /\ pc' = "added") =>
          /\ ret' <=> (BackMatterPaths(doc) # <<>>
                       /\ (normative' # Nil \/ informative' # Nil))
          /\ ret' <=> (doc' # doc)
          /\ BackMatterPaths(doc) = <<>> => (ret' = FALSE /\ doc' = doc)
      ]_vars

\* Citations were resolved into a group, but the only document matter node
\* is not back matter: false is returned.
C7_Witness ==
    /\ pc = "added"
    /\ ret = FALSE
    /\ normative # Nil
    /\ NodesOfKind(doc, "DocumentMatter") # <<>>
    /\ BackMatterPaths(doc) = <<>>

\* C8: every collected anchor has exactly one item, in the group its kind
\* names: Informative and Suppressed in the informative group, Normative in
\* the normative group; a group is nil exactly when it has no item, and a
\* tree without citations gives (nil, nil).
C8_Classification ==
    Cited =>
        LET seen == CollectAll(doc).seen IN
        /\ \A k \in 1..Len(Items(normative)) : Items(normative)[k].Type = "Normative"
        /\ \A k \in 1..Len(Items(informative)) :
              Items(informative)[k].Type \in {"Informative", "Suppressed"}
        /\ \A a \in DOMAIN seen :
              /\ Cardinality({k \in 1..Len(AllItems) : AllItems[k].Anchor = a}) = 1
              /\ \E k \in 1..Len(AllItems) :
                    AllItems[k].Anchor = a /\ AllItems[k].Type = seen[a].Type
        /\ Len(AllItems) = Cardinality(DOMAIN seen)
        /\ normative # Nil => (normative.Type = "Normative" /\ normative.children # <<>>)
        /\ informative # Nil =>
              (informative.Type = "Informative" /\ informative.children # <<>>)
        /\ NodesOfKind(doc, "Citation") = <<>> => (normative = Nil /\ informative = Nil)

\* One item of each kind: the normative one alone in its group, the
\* suppressed and the informative one together in the other.
C8_Witness ==
    /\ Cited
    /\ normative # Nil /\ informative # Nil
    /\ Len(normative.children) = 1
    /\ {informative.children[k].Type : k \in 1..Len(informative.children)}
          = {"Informative", "Suppressed"}

\* C9: whatever order the map iteration produces, a step of
\* CitationToBibliography returns the same groups, and in each of them the
\* anchors ascend strictly in byte-wise order.
C9_SortedAndDeterministic ==
    [][ (pc = "build" /\ pc' = "cited") =>
          /\ \A g \in {normative', informative'} :
                \A k \in 1..(Len(Items(g)) - 1) :
                    StringLess(Items(g)[k].Anchor, Items(g)[k + 1].Anchor)
          /\ LET st == CollectAll(doc) IN
             \A keys \in SortedKeys(st.seen) :
                 AssembleAll(st, keys) = [normative |-> normative', informative |-> informative']
      ]_vars

\* Three anchors in one group, the last cited being the first listed.
C9_Witness ==
    /\ Cited
    /\ \E g \in {normative, informative} :
          /\ Len(Items(g)) = 3
          /\ CitedPairs(doc)[3].dest = Items(g)[1].Anchor
          /\ CitedPairs(doc)[1].dest = Items(g)[2].Anchor

\* The reference blocks that declare an anchor, in document order.
AnchoredBlocks(d) ==
    LET Anchored(n) == anchorFromReference(n.Literal).ok
    IN  SelectSeq(NodesOfKind(d, "ReferenceBlock"), Anchored)

\* The indices of the blocks, among bs, whose anchor is x, compared
\* case-insensitively.
BlocksFor(bs, x) ==
    {i \in 1..Len(bs) : EqualFold(anchorFromReference(bs[i].Literal).span, x)}

\* C10: an item is joined to the last reference block in document order
\* whose anchor equals its own case-insensitively: it then carries either
\* the record decoded from that block's literal or, decoding having failed,
\* the literal itself, and never both; with no such block it carries
\* neither; and every destination that names nobody keeps its item.
C10_JoinedToLastBlock ==
    Cited =>
        LET blocks == AnchoredBlocks(doc)
            names  == FirstTitleNames(doc)
            pairs  == CitedPairs(doc)
            items  == AllItems
        IN  /\ \A k \in 1..Len(items) :
                  LET item == items[k]
                      bs   == BlocksFor(blocks, item.Anchor)
                  IN  IF bs = {}
                      THEN ~item.Reference.set /\ ~item.ReferenceGroup.set
                      ELSE LET last == CHOOSE i \in bs : \A j \in bs : j <= i
                               lit  == blocks[last].Literal
                           IN  /\ item.Reference.set # item.ReferenceGroup.set
                               /\ item.Reference.set <=> Unmarshals(lit)
                               /\ item.Reference.set => item.Reference.from = lit
                               /\ item.ReferenceGroup.set => item.ReferenceGroup.bytes = lit
            /\ \A i \in 1..Len(pairs) :
                  ~IsName(names, pairs[i].dest) =>
                      \E k \in 1..Len(items) :
                          ToLower(items[k].Anchor) = ToLower(pairs[i].dest)

\* Two blocks declare the anchor in different case; the first decodes, the
\* last does not, and the item carries the last one's bytes.
C10_Witness ==
    /\ Cited
    /\ Len(AllItems) = 1
    /\ Cardinality(BlocksFor(AnchoredBlocks(doc), AllItems[1].Anchor)) = 2
    /\ Unmarshals(AnchoredBlocks(doc)[1].Literal)
    /\ ~Unmarshals(AnchoredBlocks(doc)[2].Literal)
    /\ AllItems[1].ReferenceGroup.set
    /\ AllItems[1].ReferenceGroup.bytes = AnchoredBlocks(doc)[2].Literal
    /\ AllItems[1].Anchor # anchorFromReference(AnchoredBlocks(doc)[2].Literal).span

====
